---- MODULE Spec2Model ----
(***************************************************************************)
(* Model of the todo manager of src/main.rs: the markdown parser and       *)
(* formatter, the priority codec and the TodoManager operations over the   *)
(* in-memory spaces and the backing file.                                  *)
(*                                                                         *)
(* A Rust String is a sequence of one-character strings, so that the       *)
(* parser's trimming, prefix stripping and tag removal are computed        *)
(* character by character as str's methods compute them.                   *)
(***************************************************************************)
EXTENDS Integers, Sequences, FiniteSets, TLC

(***************************************************************************)
(* str methods used by the program                                         *)
(***************************************************************************)

\* char::is_whitespace, for the characters of the model's alphabet
IsWhitespace(c) == c \in {" ", "\t", "\n", "\r"}

\* str::starts_with(pat)
StartsWith(s, pat) ==
    /\ Len(pat) <= Len(s)
    /\ SubSeq(s, 1, Len(pat)) = pat

\* str::ends_with(pat)
EndsWith(s, pat) ==
    /\ Len(pat) <= Len(s)
    /\ SubSeq(s, Len(s) - Len(pat) + 1, Len(s)) = pat

\* str::contains(pat)
Contains(s, pat) ==
    \E i \in 1..(Len(s) - Len(pat) + 1) : SubSeq(s, i, i + Len(pat) - 1) = pat

\* str::trim_start
TrimStart(s) ==
    LET kept == {i \in 1..Len(s) : ~IsWhitespace(s[i])}
    IN IF kept = {} THEN <<>>
       ELSE SubSeq(s, CHOOSE i \in kept : \A j \in kept : i <= j, Len(s))

\* str::trim_end
TrimEnd(s) ==
    LET kept == {i \in 1..Len(s) : ~IsWhitespace(s[i])}
    IN IF kept = {} THEN <<>>
       ELSE SubSeq(s, 1, CHOOSE i \in kept : \A j \in kept : j <= i)

\* str::trim
Trim(s) == TrimEnd(TrimStart(s))

RECURSIVE TrimStartMatches(_, _)
\* str::trim_start_matches(pat): every repeated leading occurrence of pat is removed
TrimStartMatches(s, pat) ==
    IF pat # <<>> /\ StartsWith(s, pat)
    THEN TrimStartMatches(SubSeq(s, Len(pat) + 1, Len(s)), pat)
    ELSE s

RECURSIVE TrimEndMatches(_, _)
\* str::trim_end_matches(pat): every repeated trailing occurrence of pat is removed
TrimEndMatches(s, pat) ==
    IF pat # <<>> /\ EndsWith(s, pat)
    THEN TrimEndMatches(SubSeq(s, 1, Len(s) - Len(pat)), pat)
    ELSE s

RECURSIVE Replace(_, _)
\* str::replace(pat, ""): the non-overlapping occurrences of pat, left to right, removed
Replace(s, pat) ==
    IF ~Contains(s, pat) THEN s
    ELSE LET first == CHOOSE i \in 1..Len(s) :
                          /\ StartsWith(SubSeq(s, i, Len(s)), pat)
                          /\ \A j \in 1..(i - 1) : ~StartsWith(SubSeq(s, j, Len(s)), pat)
         IN SubSeq(s, 1, first - 1) \o Replace(SubSeq(s, first + Len(pat), Len(s)), pat)

\* the line terminator "\r\n": the "\r" before the "\n" is not part of the line
StripCr(line) ==
    IF line # <<>> /\ line[Len(line)] = "\r"
    THEN SubSeq(line, 1, Len(line) - 1)
    ELSE line

\* str::lines: a line ends at "\n" (a "\r" right before it belongs to the
\* terminator); what follows the last "\n" is a line unless it is empty
Lines(content) ==
    LET n == Len(content)
        newlines == {i \in 1..n : content[i] = "\n"}
        starts == {b \in {1} \cup {i + 1 : i \in newlines} : b <= n}
        Nth(k) == CHOOSE b \in starts : Cardinality({c \in starts : c < b}) = k - 1
        Line(b) ==
            IF \E i \in newlines : i >= b
            THEN StripCr(SubSeq(content, b,
                                (CHOOSE i \in newlines :
                                     i >= b /\ \A j \in newlines : j >= b => i <= j) - 1))
            ELSE SubSeq(content, b, n)
    IN [k \in 1..Cardinality(starts) |-> Line(Nth(k))]

(***************************************************************************)
(* String literals of the program                                          *)
(***************************************************************************)

DefaultName == <<"D", "e", "f", "a", "u", "l", "t">>
TagUrgent == <<"{", "U", "R", "G", "E", "N", "T", "}">>
TagHigh == <<"{", "H", "I", "G", "H", "}">>
TagMedium == <<"{", "M", "E", "D", "I", "U", "M", "}">>
TagLow == <<"{", "L", "O", "W", "}">>
HeaderOpen == <<"[", "[">>
HeaderClose == <<"]", "]">>
PendingBox == <<"-", " ", "[", " ", "]">>
DoneBox == <<"-", " ", "[", "x", "]">>
PendingPrefix == <<"-", " ", "[", " ", "]", " ">>
DonePrefix == <<"-", " ", "[", "x", "]", " ">>

(***************************************************************************)
(* Priority                                                                *)
(***************************************************************************)

Priority == {"Low", "Medium", "High", "Urgent"}

\* Priority::from_markdown with the tests in the order {LOW}, {MEDIUM}, {HIGH}, {URGENT}
FromMarkdownLowFirst(line) ==
    IF Contains(line, TagLow) THEN "Low"
    ELSE IF Contains(line, TagMedium) THEN "Medium"
    ELSE IF Contains(line, TagHigh) THEN "High"
    ELSE IF Contains(line, TagUrgent) THEN "Urgent"
    ELSE "Medium"

\* Priority::from_markdown
from_markdown(line) ==
    IF Contains(line, TagUrgent) THEN "Urgent"
    ELSE IF Contains(line, TagHigh) THEN "High"
    ELSE IF Contains(line, TagMedium) THEN "Medium"
    ELSE IF Contains(line, TagLow) THEN "Low"
    ELSE "Medium"

\* Priority::to_markdown
to_markdown(p) ==
    CASE p = "Urgent" -> TagUrgent
      [] p = "High" -> TagHigh
      [] p = "Medium" -> TagMedium
      [] p = "Low" -> TagLow

(***************************************************************************)
(* TodoItem, TodoSpace                                                     *)
(***************************************************************************)

TodoItem(item, status, priority) ==
    [item |-> item, status |-> status, priority |-> priority]

TodoSpace(name, todos) == [name |-> name, todos |-> todos]

(***************************************************************************)
(* parse_markdown_todos                                                    *)
(***************************************************************************)

\* the condition under which the space in flight is pushed to the result
KeepSpace(space) == space.todos # <<>> \/ space.name # DefaultName

\* the description slice of a task line: the checkbox prefix with its space
\* stripped by trim_start_matches
TaskDescription(trimmed) ==
    IF StartsWith(trimmed, DoneBox)
    THEN TrimStartMatches(trimmed, DonePrefix)
    ELSE TrimStartMatches(trimmed, PendingPrefix)

\* the item text of a task line: the four tags removed, then trimmed
ItemText(description) ==
    Trim(Replace(Replace(Replace(Replace(description, TagLow), TagMedium),
                         TagHigh), TagUrgent))

\* one iteration of the loop over the lines; acc is [spaces, current_space]
ParseLine(acc, line) ==
    LET trimmed == Trim(line) IN
    IF StartsWith(trimmed, HeaderOpen) /\ EndsWith(trimmed, HeaderClose)
    THEN [spaces |-> IF KeepSpace(acc.current_space)
                     THEN Append(acc.spaces, acc.current_space)
                     ELSE acc.spaces,
          current_space |->
              TodoSpace(TrimEndMatches(TrimStartMatches(trimmed, HeaderOpen),
                                       HeaderClose),
                        <<>>)]
    ELSE IF StartsWith(trimmed, PendingBox) \/ StartsWith(trimmed, DoneBox)
    THEN LET status == StartsWith(trimmed, DoneBox)
             description == TaskDescription(trimmed)
             priority == from_markdown(description)
         IN [spaces |-> acc.spaces,
             current_space |->
                 TodoSpace(acc.current_space.name,
                           Append(acc.current_space.todos,
                                  TodoItem(ItemText(description), status, priority)))]
    ELSE acc

RECURSIVE ParseLines(_, _)
\* the loop over the lines
ParseLines(acc, lines) ==
    IF lines = <<>> THEN acc
    ELSE ParseLines(ParseLine(acc, Head(lines)), Tail(lines))

\* parse_markdown_todos
parse_markdown_todos(content) ==
    LET acc == ParseLines([spaces |-> <<>>,
                           current_space |-> TodoSpace(DefaultName, <<>>)],
                          Lines(content))
    IN IF KeepSpace(acc.current_space)
       THEN Append(acc.spaces, acc.current_space)
       ELSE acc.spaces

(***************************************************************************)
(* format_todos_as_markdown                                                *)
(***************************************************************************)

\* the line of one task: "- {checkbox} {item} {tag}\n"
FormatTodo(todo) ==
    <<"-", " ">> \o (IF todo.status THEN <<"[", "x", "]">> ELSE <<"[", " ", "]">>)
        \o <<" ">> \o todo.item \o <<" ">> \o to_markdown(todo.priority) \o <<"\n">>

RECURSIVE FormatTodos(_)
FormatTodos(todos) ==
    IF todos = <<>> THEN <<>>
    ELSE FormatTodo(Head(todos)) \o FormatTodos(Tail(todos))

\* a space's text without the blank line that ends it
FormatSpaceNoBlank(space) ==
    (IF space.name # DefaultName
     THEN HeaderOpen \o space.name \o HeaderClose \o <<"\n">>
     ELSE <<>>)
        \o FormatTodos(space.todos)

\* the text of one space: its header unless it is named Default, its tasks, a blank line
FormatSpace(space) ==
    (IF space.name # DefaultName
     THEN HeaderOpen \o space.name \o HeaderClose \o <<"\n">>
     ELSE <<>>)
        \o FormatTodos(space.todos) \o <<"\n">>

RECURSIVE format_todos_as_markdown(_)
\* format_todos_as_markdown
format_todos_as_markdown(spaces) ==
    IF spaces = <<>> THEN <<>>
    ELSE FormatSpace(Head(spaces)) \o format_todos_as_markdown(Tail(spaces))

(***************************************************************************)
(* Inputs of the model                                                     *)
(***************************************************************************)

\* the cap on the number of tasks of the store
MaxTodos == 2
\* the cap on the number of spaces of the store
MaxSpaces == 2
\* the cap on the failed writes of one manager
MaxFailedWrites == 1

\* Option<T>: None, Some(x)
None == <<>>
Some(x) == <<x>>

BuyMilk == <<"b", "u", "y", " ", "m", "i", "l", "k">>
ShipRelease == <<"s", "h", "i", "p", " ", "r", "e", "l", "e", "a", "s", "e">>
Work == <<"W", "o", "r", "k">>
BracketWork == <<"[", "[", "W", "o", "r", "k">>

\* the --todo arguments
TodoArgs == {BuyMilk, ShipRelease}
\* the --space-name arguments
SpaceArgs == {None, Some(Work)}
\* the --priority arguments
PriorityArgs == {None, Some("Urgent")}
\* the --index arguments
IndexArgs == 0..(MaxTodos - 1)
StatusFilter == {"All", "Completed", "Pending"}

(***************************************************************************)
(* TodoManager                                                             *)
(***************************************************************************)

VARIABLES
    pc,                  \* "idle": no manager yet; "ready": a manager exists; "panicked"
    current_todo_spaces, \* TodoManager.current_todo_spaces
    file,                \* the file at file_path: [exists, content]
    call,                \* the last call and its arguments
    result,              \* what the last call returned
    io,                  \* the file system operations of the last call, in order
    stdout,              \* what the last call printed
    failed_writes,       \* the writes of this manager that failed
    input,               \* the argument of a function applied on its own
    output               \* what the function has computed from input so far

manager == <<pc, current_todo_spaces, file, call, result, io, stdout, failed_writes>>
vars == <<manager, input, output>>

Call(op, todo_item, index, space_name, priority, filter) ==
    [op |-> op, todo_item |-> todo_item, index |-> index,
     space_name |-> space_name, priority |-> priority, filter |-> filter]

\* Option::unwrap_or
UnwrapOr(opt, default) == IF opt = None THEN default ELSE opt[1]

\* a lookup that falls back to the first space when no space has the name
PositionOrFirst(spaces, name) ==
    IF \E i \in 1..Len(spaces) : spaces[i].name = name
    THEN CHOOSE i \in 1..Len(spaces) :
             /\ spaces[i].name = name
             /\ \A j \in 1..(i - 1) : spaces[j].name # name
    ELSE IF spaces # <<>> THEN 1 ELSE 0

\* Iterator::position(|space| space.name == name) + 1, or 0 when there is none;
\* also the space that iter_mut().find(|s| s.name == name) yields
Position(spaces, name) ==
    IF \E i \in 1..Len(spaces) : spaces[i].name = name
    THEN CHOOSE i \in 1..Len(spaces) :
             /\ spaces[i].name = name
             /\ \A j \in 1..(i - 1) : spaces[j].name # name
    ELSE 0

\* Vec::pop in the place of Vec::remove(index)
RemoveLast(todos, index) == SubSeq(todos, 1, Len(todos) - 1)

\* Vec::remove(index), index counted from 0
Remove(todos, index) ==
    SubSeq(todos, 1, index) \o SubSeq(todos, index + 2, Len(todos))

RECURSIVE TotalTodos(_)
TotalTodos(spaces) ==
    IF spaces = <<>> THEN 0 ELSE Len(Head(spaces).todos) + TotalTodos(Tail(spaces))

\* the file after a write that appends md_string to the file's content
WrittenAppended(md_string, write_ok) ==
    IF write_ok
    THEN [exists |-> TRUE, content |-> file.content \o md_string]
    ELSE file

\* the file after fs::write(file_path, md_string): replaced in full, or as it was
\* when the write fails
Written(md_string, write_ok) ==
    IF write_ok THEN [exists |-> TRUE, content |-> md_string] ELSE file

\* save_todos whose caller drops the error of the write and returns Ok
SaveTodosIgnoringError(spaces, fs) ==
    \E write_ok \in fs :
        /\ write_ok \/ failed_writes < MaxFailedWrites
        /\ file' = Written(format_todos_as_markdown(spaces), write_ok)
        /\ failed_writes' = IF write_ok THEN failed_writes ELSE failed_writes + 1
        /\ io' = IF write_ok THEN <<"write">> ELSE <<"write_err">>
        /\ result' = "Ok"

\* save_todos of `spaces`, and what the caller returns after `self.save_todos()?`;
\* fs is the set of outcomes the file system call may have
SaveTodos(spaces, fs) ==
    \E write_ok \in fs :
        /\ write_ok \/ failed_writes < MaxFailedWrites
        /\ file' = Written(format_todos_as_markdown(spaces), write_ok)
        /\ failed_writes' = IF write_ok THEN failed_writes ELSE failed_writes + 1
        /\ io' = IF write_ok THEN <<"write">> ELSE <<"write_err">>
        /\ result' = IF write_ok THEN "Ok" ELSE "io error"

\* load_todos: what it leaves in current_todo_spaces when the read succeeds
LoadTodos(content) == parse_markdown_todos(content)

Init ==
    /\ pc = "idle"
    /\ current_todo_spaces = <<>>
    /\ file = [exists |-> FALSE, content |-> <<>>]
    /\ call = Call("none", <<>>, 0, None, None, "All")
    /\ result = "Ok"
    /\ io = <<>>
    /\ stdout = <<>>
    /\ failed_writes = 0
    /\ input = <<>>
    /\ output = [step |-> "none"]

\* TodoManager::new that saves the store after a load that succeeded as well
NewAlwaysSaves(fs) ==
    /\ call' = Call("new", <<>>, 0, None, None, "All")
    /\ stdout' = <<>>
    /\ failed_writes' = 0
    /\ \/ /\ FALSE \in fs
          /\ pc' = "panicked"
          /\ current_todo_spaces' = <<>>
          /\ io' = <<"create_dir_all_err">>
          /\ result' = "panic"
          /\ UNCHANGED file
       \/ /\ file.exists
          /\ pc' = "ready"
          /\ current_todo_spaces' = LoadTodos(file.content)
          /\ file' = Written(format_todos_as_markdown(current_todo_spaces'), TRUE)
          /\ io' = <<"create_dir_all", "read", "write">>
          /\ result' = "Ok"
       \/ \E write_ok \in fs :
          /\ ~file.exists \/ FALSE \in fs
          /\ current_todo_spaces' = <<TodoSpace(DefaultName, <<>>)>>
          /\ file' = Written(format_todos_as_markdown(current_todo_spaces'), write_ok)
          /\ pc' = IF write_ok THEN "ready" ELSE "panicked"
          /\ io' = <<"create_dir_all", "read_err">>
                    \o (IF write_ok THEN <<"write">> ELSE <<"write_err">>)
          /\ result' = IF write_ok THEN "Ok" ELSE "panic"

\* TodoManager::new, of a process started on the path: the directory is created
\* (or the process panics), the file is loaded, and when that fails a Default
\* space is written (or the process panics); fs is the set of outcomes a file
\* system call may have
new(fs) ==
    /\ call' = Call("new", <<>>, 0, None, None, "All")
    /\ stdout' = <<>>
    /\ failed_writes' = 0
    /\ \/ /\ FALSE \in fs
          /\ pc' = "panicked"
          /\ current_todo_spaces' = <<>>
          /\ io' = <<"create_dir_all_err">>
          /\ result' = "panic"
          /\ UNCHANGED file
       \/ /\ file.exists
          /\ pc' = "ready"
          /\ current_todo_spaces' = LoadTodos(file.content)
          /\ io' = <<"create_dir_all", "read">>
          /\ result' = "Ok"
          /\ UNCHANGED file
       \/ \E write_ok \in fs :
          /\ ~file.exists \/ FALSE \in fs
          /\ current_todo_spaces' = <<TodoSpace(DefaultName, <<>>)>>
          /\ file' = Written(format_todos_as_markdown(current_todo_spaces'), write_ok)
          /\ pc' = IF write_ok THEN "ready" ELSE "panicked"
          /\ io' = <<"create_dir_all", "read_err">>
                    \o (IF write_ok THEN <<"write">> ELSE <<"write_err">>)
          /\ result' = IF write_ok THEN "Ok" ELSE "panic"

\* a call of TodoManager::new on its own
New(fs) == new(fs) /\ UNCHANGED <<input, output>>

\* add_todo with a new space inserted at the front of the store
AddToSpacesFront(spaces, todo_item, name, priority) ==
    LET found == Position(spaces, name)
        with_space == IF found = 0
                      THEN <<TodoSpace(name, <<>>)>> \o spaces
                      ELSE spaces
        space_name_idx == IF found = 0 THEN 1 ELSE found
    IN [with_space EXCEPT ![space_name_idx].todos =
            Append(@, TodoItem(todo_item, FALSE, priority))]

\* the spaces after add_todo's find-or-create and push
AddToSpaces(spaces, todo_item, name, priority) ==
    LET found == Position(spaces, name)
        with_space == IF found = 0
                      THEN Append(spaces, TodoSpace(name, <<>>))
                      ELSE spaces
        space_name_idx == IF found = 0 THEN Len(with_space) ELSE found
    IN [with_space EXCEPT ![space_name_idx].todos =
            Append(@, TodoItem(todo_item, FALSE, priority))]

\* TodoManager::add_todo
add_todo(todo_item, space_name, priority, fs) ==
    /\ pc = "ready"
    /\ TotalTodos(current_todo_spaces) < MaxTodos
    /\ \/ \E k \in 1..Len(current_todo_spaces) :
              current_todo_spaces[k].name = UnwrapOr(space_name, DefaultName)
       \/ Len(current_todo_spaces) < MaxSpaces
    /\ current_todo_spaces' =
           AddToSpaces(current_todo_spaces, todo_item,
                       UnwrapOr(space_name, DefaultName),
                       UnwrapOr(priority, "Medium"))
    /\ SaveTodos(current_todo_spaces', fs)
    /\ call' = Call("add_todo", todo_item, 0, space_name, priority, "All")
    /\ stdout' = <<>>
    /\ UNCHANGED pc

\* a call of TodoManager::add_todo on its own
AddTodo(todo_item, space_name, priority, fs) ==
    add_todo(todo_item, space_name, priority, fs) /\ UNCHANGED <<input, output>>

\* space.todos[index].status = true in the place of the negation
ToggledSetDone(todos, index) ==
    [todos EXCEPT ![index + 1].status = TRUE]

\* space.todos[index].status = !space.todos[index].status
Toggled(todos, index) ==
    [todos EXCEPT ![index + 1].status = ~todos[index + 1].status]

\* TodoManager::toggle_todo
toggle_todo(index, space_name, fs) ==
    LET found == Position(current_todo_spaces, UnwrapOr(space_name, DefaultName))
    IN /\ pc = "ready"
       /\ call' = Call("toggle_todo", <<>>, index, space_name, None, "All")
       /\ stdout' = <<>>
       /\ UNCHANGED pc
       /\ IF found = 0
          THEN /\ result' = "Space not found"
               /\ io' = <<>>
               /\ UNCHANGED <<current_todo_spaces, file, failed_writes>>
          ELSE IF index >= Len(current_todo_spaces[found].todos)
          THEN /\ result' = "Index out of bounds"
               /\ io' = <<>>
               /\ UNCHANGED <<current_todo_spaces, file, failed_writes>>
          ELSE /\ current_todo_spaces' =
                    [current_todo_spaces EXCEPT ![found].todos = Toggled(@, index)]
               /\ SaveTodos(current_todo_spaces', fs)

\* a call of TodoManager::toggle_todo on its own
ToggleTodo(index, space_name, fs) ==
    toggle_todo(index, space_name, fs) /\ UNCHANGED <<input, output>>

\* delete_todo that removes the space with its last task
DeleteTodoDroppingEmpty(index, space_name, fs) ==
    LET found == Position(current_todo_spaces, UnwrapOr(space_name, DefaultName))
        removed == [current_todo_spaces EXCEPT ![found].todos = Remove(@, index)]
    IN /\ pc = "ready"
       /\ call' = Call("delete_todo", <<>>, index, space_name, None, "All")
       /\ stdout' = <<>>
       /\ UNCHANGED pc
       /\ IF found = 0
          THEN /\ result' = "Space not found"
               /\ io' = <<>>
               /\ UNCHANGED <<current_todo_spaces, file, failed_writes>>
          ELSE IF index >= Len(current_todo_spaces[found].todos)
          THEN /\ result' = "Index out of bounds"
               /\ io' = <<>>
               /\ UNCHANGED <<current_todo_spaces, file, failed_writes>>
          ELSE /\ current_todo_spaces' =
                    (IF removed[found].todos = <<>>
                     THEN SubSeq(removed, 1, found - 1)
                              \o SubSeq(removed, found + 1, Len(removed))
                     ELSE removed)
               /\ SaveTodos(current_todo_spaces', fs)

\* TodoManager::delete_todo
delete_todo(index, space_name, fs) ==
    LET found == Position(current_todo_spaces, UnwrapOr(space_name, DefaultName))
    IN /\ pc = "ready"
       /\ call' = Call("delete_todo", <<>>, index, space_name, None, "All")
       /\ stdout' = <<>>
       /\ UNCHANGED pc
       /\ IF found = 0
          THEN /\ result' = "Space not found"
               /\ io' = <<>>
               /\ UNCHANGED <<current_todo_spaces, file, failed_writes>>
          ELSE IF index >= Len(current_todo_spaces[found].todos)
          THEN /\ result' = "Index out of bounds"
               /\ io' = <<>>
               /\ UNCHANGED <<current_todo_spaces, file, failed_writes>>
          ELSE /\ current_todo_spaces' =
                    [current_todo_spaces EXCEPT ![found].todos = Remove(@, index)]
               /\ SaveTodos(current_todo_spaces', fs)

\* a call of TodoManager::delete_todo on its own
DeleteTodo(index, space_name, fs) ==
    delete_todo(index, space_name, fs) /\ UNCHANGED <<input, output>>

\* the predicate of a StatusFilter
Passes(todo_state, todo) ==
    CASE todo_state = "All" -> TRUE
      [] todo_state = "Completed" -> todo.status
      [] todo_state = "Pending" -> ~todo.status

\* one printed task line: "- {i}: {checkbox} {item} {tag}"
Row(i, todo) ==
    [i |-> i,
     checkbox |-> IF todo.status THEN "[x]" ELSE "[ ]",
     item |-> todo.item,
     tag |-> to_markdown(todo.priority)]

RECURSIVE EnumerateFilter(_, _, _)
\* todos.iter().enumerate().filter(..).collect(), i being the index of the head
EnumerateFilter(todos, i, todo_state) ==
    IF todos = <<>> THEN <<>>
    ELSE (IF Passes(todo_state, Head(todos)) THEN <<Row(i, Head(todos))>> ELSE <<>>)
         \o EnumerateFilter(Tail(todos), i + 1, todo_state)

\* filter(..).enumerate() in the place of enumerate().filter(..): the rows are
\* numbered by their position among the rows
TodosToDisplayRenumbered(todos, todo_state) ==
    LET rows == EnumerateFilter(todos, 0, todo_state)
    IN [r \in 1..Len(rows) |-> [rows[r] EXCEPT !.i = r - 1]]

\* the rows list_todos prints for one space
TodosToDisplay(todos, todo_state) == EnumerateFilter(todos, 0, todo_state)

\* TodoManager::list_todos
list_todos(todo_state) ==
    /\ pc = "ready"
    /\ stdout' = [k \in 1..Len(current_todo_spaces) |->
                    [name |-> current_todo_spaces[k].name,
                     rows |-> TodosToDisplay(current_todo_spaces[k].todos, todo_state)]]
    /\ call' = Call("list_todos", <<>>, 0, None, None, todo_state)
    /\ result' = "Ok"
    /\ io' = <<>>
    /\ UNCHANGED <<pc, current_todo_spaces, file, failed_writes>>

\* a call of TodoManager::list_todos on its own
ListTodos(todo_state) == list_todos(todo_state) /\ UNCHANGED <<input, output>>

\* TodoManager::list_workspaces
list_workspaces ==
    /\ pc = "ready"
    /\ stdout' = [k \in 1..Len(current_todo_spaces) |->
                    [name |-> current_todo_spaces[k].name,
                     completed |-> Cardinality({i \in 1..Len(current_todo_spaces[k].todos) :
                                                  current_todo_spaces[k].todos[i].status}),
                     total |-> Len(current_todo_spaces[k].todos)]]
    /\ call' = Call("list_workspaces", <<>>, 0, None, None, "All")
    /\ result' = "Ok"
    /\ io' = <<>>
    /\ UNCHANGED <<pc, current_todo_spaces, file, failed_writes>>

\* a call of TodoManager::list_workspaces on its own
ListWorkspaces == list_workspaces /\ UNCHANGED <<input, output>>

\* the outcomes of a file system call: it succeeds or fails
FsAny == BOOLEAN
\* the outcomes of a file system call that cannot fail
FsOk == {TRUE}

Next ==
    \/ New(FsAny)
    \/ \E t \in TodoArgs, s \in SpaceArgs, p \in PriorityArgs : AddTodo(t, s, p, FsAny)
    \/ \E i \in IndexArgs, s \in SpaceArgs : ToggleTodo(i, s, FsAny)
    \/ \E i \in IndexArgs, s \in SpaceArgs : DeleteTodo(i, s, FsAny)
    \/ \E f \in StatusFilter : ListTodos(f)
    \/ ListWorkspaces

\* the program, with file system calls that may fail; a call of New is the
\* start of a new process on the path, and the calls that follow it are made on
\* the manager it built (TodoManager::edit, which hands the file to an editor,
\* is left out)
Spec == Init /\ [][Next]_vars

NextOk ==
    \/ New(FsOk)
    \/ \E t \in TodoArgs, s \in SpaceArgs, p \in PriorityArgs : AddTodo(t, s, p, FsOk)
    \/ \E i \in IndexArgs, s \in SpaceArgs : ToggleTodo(i, s, FsOk)
    \/ \E i \in IndexArgs, s \in SpaceArgs : DeleteTodo(i, s, FsOk)
    \/ \E f \in StatusFilter : ListTodos(f)
    \/ ListWorkspaces

\* the program where no file system call fails, except the read of a file that
\* does not exist
SpecOk == Init /\ [][NextOk]_vars

\* the --space-name arguments of a user who names a space "[[Work"
BracketSpaceArgs == {Some(Work), Some(BracketWork)}

NextBracketNames ==
    \/ New(FsOk)
    \/ \E s \in BracketSpaceArgs : AddTodo(BuyMilk, s, None, FsOk)
    \/ \E i \in IndexArgs, s \in BracketSpaceArgs : ToggleTodo(i, s, FsOk)
    \/ \E i \in IndexArgs, s \in BracketSpaceArgs : DeleteTodo(i, s, FsOk)
    \/ \E f \in StatusFilter : ListTodos(f)
    \/ ListWorkspaces

\* the program where no file system call fails, called with space names that
\* start with the header's brackets
SpecBracketNames == Init /\ [][NextBracketNames]_vars

NextFailures ==
    \/ New(FsAny)
    \/ \E s \in SpaceArgs : AddTodo(BuyMilk, s, None, FsAny)
    \/ \E i \in IndexArgs, s \in SpaceArgs : ToggleTodo(i, s, FsAny)
    \/ \E i \in IndexArgs, s \in SpaceArgs : DeleteTodo(i, s, FsAny)
    \/ \E f \in StatusFilter : ListTodos(f)
    \/ ListWorkspaces

\* the program with file system calls that may fail, called with one task text
\* and no priority
SpecFailures == Init /\ [][NextFailures]_vars

(***************************************************************************)
(* main: one invocation of the program. input is the parsed command line,  *)
(* output the position in main and the trace of the invocation: its file   *)
(* system operations and its mutations of the spaces in memory, in order.  *)
(***************************************************************************)

\* the actions of the command line (Edit, which starts an editor, is left out)
ActionArgs == {"New", "Toggle", "Delete", "Add", "List", "ListCompleted",
               "ListPending", "ListSpaces"}

\* struct Cli after Cli::parse()
Cli(action, todo, index, space_name, priority) ==
    [action |-> action, todo |-> todo, index |-> index,
     space_name |-> space_name, priority |-> priority]

\* the command lines: each action with the options it reads, the others absent
CliArgs ==
    {Cli("Add", t, 0, s, p) : t \in {None, Some(BuyMilk)}, s \in SpaceArgs,
                              p \in PriorityArgs}
    \cup {Cli(a, None, i, s, None) : a \in {"Toggle", "Delete"}, i \in IndexArgs,
                                     s \in SpaceArgs}
    \cup {Cli(a, None, 0, None, None) :
              a \in {"New", "List", "ListCompleted", "ListPending", "ListSpaces"}}

\* the trace of one TodoManager::new: its file system operations, with the push
\* of the Default space between the read that failed and the write
NewTrace(ops) ==
    IF Len(ops) >= 2 /\ ops[2] = "read_err"
    THEN <<ops[1], ops[2], "mutate">> \o SubSeq(ops, 3, Len(ops))
    ELSE ops

\* the trace of one add_todo, toggle_todo or delete_todo: the mutation of the
\* spaces, when it made one, and then its file system operations
MethodTrace(before, after, ops) ==
    (IF after # before THEN <<"mutate">> ELSE <<>>) \o ops

\* let args = Cli::parse(): a process starts once the one before it has ended
MainParse ==
    /\ output.step \in {"none", "exit"}
    /\ input' \in CliArgs
    /\ output' = [step |-> "parsed", trace |-> <<>>]
    /\ pc' = "idle"
    /\ current_todo_spaces' = <<>>
    /\ call' = Call("none", <<>>, 0, None, None, "All")
    /\ result' = "Ok"
    /\ io' = <<>>
    /\ stdout' = <<>>
    /\ failed_writes' = 0
    /\ UNCHANGED file

\* let mut manager = TodoManager::new(path)
MainConstruct(fs) ==
    /\ output.step = "parsed"
    /\ new(fs)
    /\ output' = [step |-> IF pc' = "ready" THEN "constructed" ELSE "exit",
                  trace |-> NewTrace(io')]
    /\ UNCHANGED input

\* ActionArgs::Add with --todo
MainAdd(fs) ==
    /\ output.step = "constructed"
    /\ input.action = "Add"
    /\ input.todo # None
    /\ add_todo(input.todo[1], input.space_name, input.priority, fs)
    /\ output' = [step |-> "exit",
                  trace |-> output.trace
                            \o MethodTrace(current_todo_spaces, current_todo_spaces', io')]
    /\ UNCHANGED input

\* ActionArgs::Add without --todo
MainAddNoTodo ==
    /\ output.step = "constructed"
    /\ input.action = "Add"
    /\ input.todo = None
    /\ stdout' = <<"Please provide todo with --todo">>
    /\ output' = [step |-> "exit", trace |-> output.trace]
    /\ UNCHANGED <<pc, current_todo_spaces, file, call, result, io, failed_writes, input>>

\* ActionArgs::Toggle
MainToggle(fs) ==
    /\ output.step = "constructed"
    /\ input.action = "Toggle"
    /\ toggle_todo(input.index, input.space_name, fs)
    /\ output' = [step |-> "exit",
                  trace |-> output.trace
                            \o MethodTrace(current_todo_spaces, current_todo_spaces', io')]
    /\ UNCHANGED input

\* ActionArgs::Delete
MainDelete(fs) ==
    /\ output.step = "constructed"
    /\ input.action = "Delete"
    /\ delete_todo(input.index, input.space_name, fs)
    /\ output' = [step |-> "exit",
                  trace |-> output.trace
                            \o MethodTrace(current_todo_spaces, current_todo_spaces', io')]
    /\ UNCHANGED input

\* the StatusFilter of ActionArgs::List, ListCompleted and ListPending
ActionFilter(action) ==
    CASE action = "List" -> "All"
      [] action = "ListCompleted" -> "Completed"
      [] action = "ListPending" -> "Pending"

\* ActionArgs::List, ListCompleted, ListPending
MainList ==
    /\ output.step = "constructed"
    /\ input.action \in {"List", "ListCompleted", "ListPending"}
    /\ list_todos(ActionFilter(input.action))
    /\ output' = [step |-> "exit", trace |-> output.trace \o io']
    /\ UNCHANGED input

\* ActionArgs::New: let _manager = TodoManager::new(path), a second manager on
\* the same path (the message it prints after that is left out)
MainNew(fs) ==
    /\ output.step = "constructed"
    /\ input.action = "New"
    /\ new(fs)
    /\ output' = [step |-> "exit", trace |-> output.trace \o NewTrace(io')]
    /\ UNCHANGED input

\* ActionArgs::ListSpaces
MainListSpaces ==
    /\ output.step = "constructed"
    /\ input.action = "ListSpaces"
    /\ list_workspaces
    /\ output' = [step |-> "exit", trace |-> output.trace \o io']
    /\ UNCHANGED input

NextMain ==
    \/ MainParse
    \/ MainConstruct(FsAny)
    \/ MainAdd(FsAny)
    \/ MainAddNoTodo
    \/ MainToggle(FsAny)
    \/ MainDelete(FsAny)
    \/ MainList
    \/ MainNew(FsAny)
    \/ MainListSpaces

\* the invocations of the program on one path, one after the other, with file
\* system calls that may fail
SpecMain == Init /\ [][NextMain]_vars

(***************************************************************************)
(* format_todos_as_markdown followed by parse_markdown_todos, applied to   *)
(* stores drawn from a bounded set                                         *)
(***************************************************************************)

\* the cap on the number of spaces of an input store
RtMaxSpaces == 2
\* the cap on the number of tasks of a space of an input store
RtMaxTodos == 1

\* the names of an input store's spaces
RtNames == {DefaultName, Work}
\* the descriptions of an input store's tasks; the last one holds a tag
RtItems == {<<"a">>, <<"b", " ", "c">>, <<"d", " ">> \o TagHigh}

RtTodos == {TodoItem(item, status, priority) :
                item \in RtItems, status \in BOOLEAN, priority \in Priority}

\* the sequences over S of length at most n
SeqUpTo(S, n) == UNION {[1..k -> S] : k \in 0..n}

RtSpaces == {TodoSpace(name, todos) :
                 name \in RtNames, todos \in SeqUpTo(RtTodos, RtMaxTodos)}

RtStores == SeqUpTo(RtSpaces, RtMaxSpaces)

InitRoundTrip ==
    /\ pc = "idle"
    /\ current_todo_spaces = <<>>
    /\ file = [exists |-> FALSE, content |-> <<>>]
    /\ call = Call("none", <<>>, 0, None, None, "All")
    /\ result = "Ok"
    /\ io = <<>>
    /\ stdout = <<>>
    /\ failed_writes = 0
    /\ input \in RtStores
    /\ output = [step |-> "none"]

\* format_todos_as_markdown(input)
FormatStep ==
    /\ output.step = "none"
    /\ output' = [step |-> "formatted", text |-> format_todos_as_markdown(input)]
    /\ UNCHANGED <<manager, input>>

\* parse_markdown_todos of the formatted text
ParseStep ==
    /\ output.step = "formatted"
    /\ output' = [step |-> "parsed", text |-> output.text,
                  spaces |-> parse_markdown_todos(output.text)]
    /\ UNCHANGED <<manager, input>>

NextRoundTrip == FormatStep \/ ParseStep

SpecRoundTrip == InitRoundTrip /\ [][NextRoundTrip]_vars

(***************************************************************************)
(* Priority::to_markdown and Priority::from_markdown, applied to the       *)
(* priorities and to lines drawn from a bounded set                        *)
(***************************************************************************)

\* the cap on the number of pieces of an input line
CodecMaxPieces == 3

\* the pieces an input line is made of: the four tags, and text that holds no
\* tag and forms none with its neighbours (a lowercase tag and an unclosed one
\* among them)
CodecPieces ==
    {TagUrgent, TagHigh, TagMedium, TagLow,
     <<"a">>, <<" ">>, <<"{", "l", "o", "w", "}">>, <<"{", "H", "I", "G", "H">>}

RECURSIVE Flatten(_)
\* the line made of the pieces
Flatten(pieces) ==
    IF pieces = <<>> THEN <<>> ELSE Head(pieces) \o Flatten(Tail(pieces))

CodecInputs ==
    {[kind |-> "priority", priority |-> p] : p \in Priority}
    \cup {[kind |-> "line", pieces |-> ps] : ps \in SeqUpTo(CodecPieces, CodecMaxPieces)}

InitCodec ==
    /\ pc = "idle"
    /\ current_todo_spaces = <<>>
    /\ file = [exists |-> FALSE, content |-> <<>>]
    /\ call = Call("none", <<>>, 0, None, None, "All")
    /\ result = "Ok"
    /\ io = <<>>
    /\ stdout = <<>>
    /\ failed_writes = 0
    /\ input \in CodecInputs
    /\ output = [step |-> "none"]

\* to_markdown of the input priority
EncodeStep ==
    /\ input.kind = "priority"
    /\ output.step = "none"
    /\ output' = [step |-> "encoded", text |-> to_markdown(input.priority)]
    /\ UNCHANGED <<manager, input>>

\* from_markdown of the tag to_markdown gave
DecodeStep ==
    /\ output.step = "encoded"
    /\ output' = [step |-> "decoded", text |-> output.text,
                  priority |-> from_markdown(output.text)]
    /\ UNCHANGED <<manager, input>>

\* from_markdown of the input line
DecodeLineStep ==
    /\ input.kind = "line"
    /\ output.step = "none"
    /\ output' = [step |-> "decoded", text |-> Flatten(input.pieces),
                  priority |-> from_markdown(Flatten(input.pieces))]
    /\ UNCHANGED <<manager, input>>

NextCodec == EncodeStep \/ DecodeStep \/ DecodeLineStep

SpecCodec == InitCodec /\ [][NextCodec]_vars

(***************************************************************************)
(* parse_markdown_todos, applied to one line drawn from a bounded set      *)
(***************************************************************************)

\* the cap on the number of pieces of an input line
ParserMaxPieces == 4

\* the pieces an input line is made of
ParserPieces == {PendingBox, DoneBox, <<" ">>, <<"f", "o", "o">>, TagHigh}

InitParser ==
    /\ pc = "idle"
    /\ current_todo_spaces = <<>>
    /\ file = [exists |-> FALSE, content |-> <<>>]
    /\ call = Call("none", <<>>, 0, None, None, "All")
    /\ result = "Ok"
    /\ io = <<>>
    /\ stdout = <<>>
    /\ failed_writes = 0
    /\ input \in SeqUpTo(ParserPieces, ParserMaxPieces)
    /\ output = [step |-> "none"]

\* parse_markdown_todos of the line made of the input pieces
ParseTextStep ==
    /\ output.step = "none"
    /\ output' = [step |-> "parsed", text |-> Flatten(input),
                  spaces |-> parse_markdown_todos(Flatten(input))]
    /\ UNCHANGED <<manager, input>>

NextParser == ParseTextStep

SpecParser == InitParser /\ [][NextParser]_vars

(***************************************************************************)
(* Two invocations of `add` that run at the same time on one path. Each    *)
(* has its own manager; input holds the command line of each, output the   *)
(* position and the manager of each. A step is one access to the file or   *)
(* one mutation of a manager's memory.                                     *)
(***************************************************************************)

Procs == {1, 2}

\* the files the two invocations may find
ConcurrentFiles ==
    {[exists |-> FALSE, content |-> <<>>],
     [exists |-> TRUE, content |-> <<"\n">>],
     [exists |-> TRUE,
      content |-> format_todos_as_markdown(
                      <<TodoSpace(DefaultName, <<TodoItem(BuyMilk, TRUE, "Medium")>>)>>)]}

\* a process before TodoManager::new
Started == [step |-> "start", current_todo_spaces |-> <<>>, loaded |-> <<>>,
            result |-> "Ok"]

InitConcurrent ==
    /\ pc = "idle"
    /\ current_todo_spaces = <<>>
    /\ file \in ConcurrentFiles
    /\ call = Call("none", <<>>, 0, None, None, "All")
    /\ result = "Ok"
    /\ io = <<>>
    /\ stdout = <<>>
    /\ failed_writes = 0
    /\ input \in [Procs -> {Cli("Add", Some(t), 0, sp, None) :
                                t \in TodoArgs, sp \in SpaceArgs}]
    /\ output = [p \in Procs |-> Started]

\* TodoManager::new of process p up to load_todos: the read of the file, which
\* fails when there is no file
ProcLoad(p) ==
    /\ output[p].step = "start"
    /\ output' = [output EXCEPT ![p] =
                      IF file.exists
                      THEN [step |-> "constructed",
                            current_todo_spaces |-> LoadTodos(file.content),
                            loaded |-> LoadTodos(file.content),
                            result |-> "Ok"]
                      ELSE [step |-> "load failed",
                            current_todo_spaces |-> <<TodoSpace(DefaultName, <<>>)>>,
                            loaded |-> <<TodoSpace(DefaultName, <<>>)>>,
                            result |-> "Ok"]]
    /\ UNCHANGED <<manager, input>>

\* TodoManager::new of process p after the load that failed: save_todos of the
\* Default space, or the panic
ProcSaveDefault(p, fs) ==
    /\ output[p].step = "load failed"
    /\ \E write_ok \in fs :
           /\ file' = Written(format_todos_as_markdown(output[p].current_todo_spaces),
                              write_ok)
           /\ output' = [output EXCEPT
                             ![p].step = IF write_ok THEN "constructed" ELSE "exit",
                             ![p].result = IF write_ok THEN "Ok" ELSE "panic"]
    /\ UNCHANGED <<pc, current_todo_spaces, call, result, io, stdout, failed_writes,
                   input>>

\* add_todo of process p up to the push of the task
ProcPush(p) ==
    /\ output[p].step = "constructed"
    /\ output' = [output EXCEPT
                      ![p].step = "pushed",
                      ![p].current_todo_spaces =
                          AddToSpaces(@, input[p].todo[1],
                                      UnwrapOr(input[p].space_name, DefaultName),
                                      UnwrapOr(input[p].priority, "Medium"))]
    /\ UNCHANGED <<manager, input>>

\* add_todo of process p from save_todos on: the write of the whole file, and
\* what add_todo returns
ProcSave(p, fs) ==
    /\ output[p].step = "pushed"
    /\ \E write_ok \in fs :
           /\ file' = Written(format_todos_as_markdown(output[p].current_todo_spaces),
                              write_ok)
           /\ output' = [output EXCEPT
                             ![p].step = "exit",
                             ![p].result = IF write_ok THEN "Ok" ELSE "io error"]
    /\ UNCHANGED <<pc, current_todo_spaces, call, result, io, stdout, failed_writes,
                   input>>

NextConcurrent ==
    \E p \in Procs :
        \/ ProcLoad(p)
        \/ ProcSaveDefault(p, FsAny)
        \/ ProcPush(p)
        \/ ProcSave(p, FsAny)

\* two processes that run main with the action Add on one path, their file
\* accesses interleaved in every order
SpecConcurrent == InitConcurrent /\ [][NextConcurrent]_vars

(***************************************************************************)
(* Properties                                                              *)
(***************************************************************************)

\* s holds a {...}-bracketed substring
HasBracketed(s) ==
    \E i \in 1..Len(s), j \in 1..Len(s) : i < j /\ s[i] = "{" /\ s[j] = "}"

\* every description of the store is non-empty and holds no {...}-bracketed substring
PlainDescriptions(spaces) ==
    \A k \in 1..Len(spaces) : \A i \in 1..Len(spaces[k].todos) :
        /\ spaces[k].todos[i].item # <<>>
        /\ ~HasBracketed(spaces[k].todos[i].item)

\* C1: parsing the formatted text of a store whose descriptions are non-empty
\* and hold no {...}-bracketed substring gives the store back: the same spaces in
\* the same order, each with the same tasks in the same order.
C1_RoundTrip ==
    (output.step = "parsed" /\ PlainDescriptions(input)) => output.spaces = input

\* C2: formatting the store whose only space is an empty "Default" and parsing
\* the text back gives exactly one space, named "Default", with no tasks.
C2_EmptyDefaultRoundTrip ==
    (output.step = "parsed" /\ input = <<TodoSpace(DefaultName, <<>>)>>)
        => output.spaces = <<TodoSpace(DefaultName, <<>>)>>

\* the first space of `spaces` named `name`: the space toggle, delete and add address
Target(spaces, name) ==
    CHOOSE k \in 1..Len(spaces) :
        /\ spaces[k].name = name
        /\ \A j \in 1..(k - 1) : spaces[j].name # name

\* some space of `spaces` is named `name`
HasSpace(spaces, name) == \E k \in 1..Len(spaces) : spaces[k].name = name

\* the space name a call resolves to
CalledName(c) == IF c.space_name = None THEN DefaultName ELSE c.space_name[1]

\* every task of `before` is in `after` in a space of the same name, at the same
\* index, with the same description, status and priority
TasksPreserved(before, after) ==
    \A k \in 1..Len(before) : \A i \in 1..Len(before[k].todos) :
        \E m \in 1..Len(after) :
            /\ after[m].name = before[k].name
            /\ i <= Len(after[m].todos)
            /\ after[m].todos[i] = before[k].todos[i]

\* C3: when a manager whose writes all succeeded is followed by a new manager
\* that loads the written file, every task is loaded into the space of the same
\* name, at the same index, with the same description, status and priority.
C3_ReloadPreservesTasks ==
    [][(/\ pc = "ready"
        /\ failed_writes = 0
        /\ call'.op = "new"
        /\ io' = <<"create_dir_all", "read">>)
       => TasksPreserved(current_todo_spaces, current_todo_spaces')]_vars

\* C4: while every write of the manager has succeeded, the content of the file
\* is the formatted text of the spaces in memory.
C4_FileIsFormattedMemory ==
    (pc = "ready" /\ failed_writes = 0)
        => /\ file.exists
           /\ file.content = format_todos_as_markdown(current_todo_spaces)

\* C5: a toggle or delete whose space name matches no space, or whose index is
\* not below the number of tasks of the space it addresses, returns an error,
\* leaves the spaces in memory as they were and performs no write.
C5_FailedCallChangesNothing ==
    [][(/\ pc = "ready"
        /\ call'.op \in {"toggle_todo", "delete_todo"}
        /\ \/ ~HasSpace(current_todo_spaces, CalledName(call'))
           \/ call'.index >=
                  Len(current_todo_spaces[Target(current_todo_spaces,
                                                 CalledName(call'))].todos))
       => /\ result' = IF HasSpace(current_todo_spaces, CalledName(call'))
                       THEN "Index out of bounds"
                       ELSE "Space not found"
          /\ current_todo_spaces' = current_todo_spaces
          /\ file' = file
          /\ io' = <<>>]_vars

\* a delete was refused for its index on a store that holds a task
C5_Witness ==
    /\ call.op = "delete_todo"
    /\ result = "Index out of bounds"
    /\ call.index = 1
    /\ HasSpace(current_todo_spaces, CalledName(call))
    /\ Len(current_todo_spaces[Target(current_todo_spaces, CalledName(call))].todos) = 1

\* the names of the spaces of the store are pairwise different
UniqueNames(spaces) ==
    \A i \in 1..Len(spaces), j \in 1..Len(spaces) :
        i # j => spaces[i].name # spaces[j].name

\* C6: no two spaces of a manager's store have the same name.
C6_SpaceNamesUnique == pc = "ready" => UniqueNames(current_todo_spaces)

\* C7: a successful delete(i, space) leaves the space with one task less, the
\* tasks before index i where they were, every task after index i one index
\* lower, and every other space as it was.
C7_DeleteShifts ==
    [][(call'.op = "delete_todo" /\ result' = "Ok")
       => LET k == Target(current_todo_spaces, CalledName(call'))
              i == call'.index
              before == current_todo_spaces[k].todos
              after == current_todo_spaces'[k].todos
          IN /\ i < Len(before)
             /\ Len(current_todo_spaces') = Len(current_todo_spaces)
             /\ current_todo_spaces'[k].name = current_todo_spaces[k].name
             /\ Len(after) = Len(before) - 1
             /\ \A j \in 0..(i - 1) : after[j + 1] = before[j + 1]
             /\ \A j \in (i + 1)..(Len(before) - 1) : after[j] = before[j + 1]
             /\ \A m \in 1..Len(current_todo_spaces) :
                    m # k => current_todo_spaces'[m] = current_todo_spaces[m]]_vars

\* a delete at index 0 succeeded and left a task, which moved from index 1 to 0
C7_Witness ==
    /\ call.op = "delete_todo"
    /\ result = "Ok"
    /\ call.index = 0
    /\ HasSpace(current_todo_spaces, CalledName(call))
    /\ Len(current_todo_spaces[Target(current_todo_spaces, CalledName(call))].todos) = 1

\* the file after initialize: "\n"
FileAfterInit ==
    <<"\n">>

\* the file after add("buy milk", None, None)
FileAfterBuyMilk ==
    <<"-", " ", "[", " ", "]", " ", "b", "u", "y", " ",
      "m", "i", "l", "k", " ", "{", "M", "E", "D", "I",
      "U", "M", "}", "\n", "\n">>

\* the file after toggle(0, None)
FileAfterToggle ==
    <<"-", " ", "[", "x", "]", " ", "b", "u", "y", " ",
      "m", "i", "l", "k", " ", "{", "M", "E", "D", "I",
      "U", "M", "}", "\n", "\n">>

\* the file after add("ship release", Some("Work"), Some(Urgent))
FileAfterShipRelease ==
    <<"-", " ", "[", "x", "]", " ", "b", "u", "y", " ",
      "m", "i", "l", "k", " ", "{", "M", "E", "D", "I",
      "U", "M", "}", "\n", "\n", "[", "[", "W", "o", "r",
      "k", "]", "]", "\n", "-", " ", "[", " ", "]", " ",
      "s", "h", "i", "p", " ", "r", "e", "l", "e", "a",
      "s", "e", " ", "{", "U", "R", "G", "E", "N", "T",
      "}", "\n", "\n">>

\* the file holds `content` and every write of the manager succeeded
ReadyOn(content) ==
    /\ pc = "ready"
    /\ failed_writes = 0
    /\ file = [exists |-> TRUE, content |-> content]

\* C8: on a path that does not exist, initialize writes "\n"; from there
\* add("buy milk", None, None), toggle(0, None) and add("ship release",
\* Some("Work"), Some(Urgent)) each write the file the scenario gives.
C8_Scenario ==
    [][/\ (~file.exists /\ call'.op = "new" /\ result' = "Ok")
          => file' = [exists |-> TRUE, content |-> FileAfterInit]
       /\ (/\ ReadyOn(FileAfterInit)
           /\ call' = Call("add_todo", BuyMilk, 0, None, None, "All")
           /\ result' = "Ok")
          => file' = [exists |-> TRUE, content |-> FileAfterBuyMilk]
       /\ (/\ ReadyOn(FileAfterBuyMilk)
           /\ call' = Call("toggle_todo", <<>>, 0, None, None, "All")
           /\ result' = "Ok")
          => file' = [exists |-> TRUE, content |-> FileAfterToggle]
       /\ (/\ ReadyOn(FileAfterToggle)
           /\ call' = Call("add_todo", ShipRelease, 0, Some(Work), Some("Urgent"), "All")
           /\ result' = "Ok")
          => file' = [exists |-> TRUE, content |-> FileAfterShipRelease]]_vars

\* the last step of the scenario was taken
C8_Witness ==
    /\ call = Call("add_todo", ShipRelease, 0, Some(Work), Some("Urgent"), "All")
    /\ result = "Ok"
    /\ file = [exists |-> TRUE, content |-> FileAfterShipRelease]

\* the printed row shows the task at index row.i of todos
ShowsTask(row, todos) ==
    /\ row.i < Len(todos)
    /\ row.item = todos[row.i + 1].item
    /\ row.checkbox = (IF todos[row.i + 1].status THEN "[x]" ELSE "[ ]")
    /\ \/ row.tag = TagLow /\ todos[row.i + 1].priority = "Low"
       \/ row.tag = TagMedium /\ todos[row.i + 1].priority = "Medium"
       \/ row.tag = TagHigh /\ todos[row.i + 1].priority = "High"
       \/ row.tag = TagUrgent /\ todos[row.i + 1].priority = "Urgent"

\* every row of the listing shows the task that its index addresses in the
\* space of its block
ListedByOriginalIndex ==
    call.op = "list_todos"
        => /\ Len(stdout) = Len(current_todo_spaces)
           /\ \A k \in 1..Len(stdout) :
                /\ stdout[k].name = current_todo_spaces[k].name
                /\ \A r \in 1..Len(stdout[k].rows) :
                       ShowsTask(stdout[k].rows[r], current_todo_spaces[k].todos)

\* C9: list leaves the spaces in memory and the file as they were, a list call
\* right after a list call with the same filter prints the same, and every
\* task it prints is printed with its index in the full task sequence of its
\* space.
C9_ListReadOnly ==
    /\ []ListedByOriginalIndex
    /\ [][/\ call'.op = "list_todos"
             => /\ current_todo_spaces' = current_todo_spaces
                /\ file' = file
                /\ io' = <<>>
          /\ (/\ call.op = "list_todos"
              /\ call'.op = "list_todos"
              /\ call'.filter = call.filter)
             => stdout' = stdout]_vars

\* a filtered listing printed a task whose index is not its position among the
\* printed tasks
C9_Witness ==
    /\ call.op = "list_todos"
    /\ call.filter = "Completed"
    /\ \E k \in 1..Len(stdout) :
           /\ Len(stdout[k].rows) = 1
           /\ stdout[k].rows[1].i = 1

\* the priority a call resolves to
CalledPriority(c) == IF c.priority = None THEN "Medium" ELSE c.priority[1]

\* C10: add resolves an absent space name to "Default" and an absent priority
\* to Medium, appends a pending task with the given description and priority as
\* the last task of the first space of that name, or of a new space appended at
\* the end of the store, leaves every other task and the order of the spaces as
\* they were, and returns an error only when the write failed.
C10_Add ==
    [][call'.op = "add_todo"
       => LET name == CalledName(call')
              todo == [item |-> call'.todo_item, status |-> FALSE,
                       priority |-> CalledPriority(call')]
              before == current_todo_spaces
              after == current_todo_spaces'
          IN /\ IF HasSpace(before, name)
                THEN /\ Len(after) = Len(before)
                     /\ \A m \in 1..Len(before) :
                            /\ after[m].name = before[m].name
                            /\ after[m].todos = IF m = Target(before, name)
                                              THEN Append(before[m].todos, todo)
                                              ELSE before[m].todos
                ELSE /\ Len(after) = Len(before) + 1
                     /\ \A m \in 1..Len(before) : after[m] = before[m]
                     /\ after[Len(after)] = [name |-> name, todos |-> <<todo>>]
             /\ result' \in {"Ok", "io error"}
             /\ result' = "Ok" <=> io' = <<"write">>
             /\ result' = "io error" <=> io' = <<"write_err">>]_vars

\* an add without space name and priority appended a pending Medium task to
\* "Default", and returned the error of the failed write
C10_Witness ==
    /\ call.op = "add_todo"
    /\ call.space_name = None
    /\ call.priority = None
    /\ result = "io error"
    /\ HasSpace(current_todo_spaces, DefaultName)
    /\ LET todos == current_todo_spaces[Target(current_todo_spaces, DefaultName)].todos
       IN /\ Len(todos) = 2
          /\ todos[2] = [item |-> call.todo_item, status |-> FALSE, priority |-> "Medium"]

\* C11: toggle(i, space) on a space that exists, with i below the number of its
\* tasks, negates the status of the task at index i of the first space of that
\* name, leaves its description and priority, every other task, and the number
\* and order of the tasks and of the spaces as they were, and then writes the
\* store: when the write succeeds the file holds the formatted text of the
\* spaces in memory and the call returns Ok.
C11_Toggle ==
    [][(/\ pc = "ready"
        /\ call'.op = "toggle_todo"
        /\ HasSpace(current_todo_spaces, CalledName(call'))
        /\ call'.index <
               Len(current_todo_spaces[Target(current_todo_spaces,
                                              CalledName(call'))].todos))
       => LET k == Target(current_todo_spaces, CalledName(call'))
              i == call'.index
              before == current_todo_spaces
              after == current_todo_spaces'
          IN /\ Len(after) = Len(before)
             /\ \A m \in 1..Len(before) :
                    /\ after[m].name = before[m].name
                    /\ Len(after[m].todos) = Len(before[m].todos)
                    /\ \A j \in 1..Len(before[m].todos) :
                           /\ after[m].todos[j].item = before[m].todos[j].item
                           /\ after[m].todos[j].priority = before[m].todos[j].priority
                           /\ after[m].todos[j].status =
                                  IF m = k /\ j = i + 1
                                  THEN ~before[m].todos[j].status
                                  ELSE before[m].todos[j].status
             /\ io' \in {<<"write">>, <<"write_err">>}
             /\ io' = <<"write">>
                    => /\ result' = "Ok"
                       /\ file' = [exists |-> TRUE,
                                   content |-> format_todos_as_markdown(after)]]_vars

\* a toggle at index 1 of "Work" succeeded: the second task of the space is
\* completed and the first one is pending
C11_Witness ==
    /\ call.op = "toggle_todo"
    /\ call.index = 1
    /\ call.space_name = Some(Work)
    /\ result = "Ok"
    /\ HasSpace(current_todo_spaces, Work)
    /\ LET todos == current_todo_spaces[Target(current_todo_spaces, Work)].todos
       IN /\ Len(todos) = 2
          /\ ~todos[1].status
          /\ todos[2].status

\* C12: when the write fails during add, toggle or delete, the call returns the
\* error, the spaces in memory hold the mutated state (one task more after add,
\* one task less after delete, the status of the addressed task negated after
\* toggle) and are not rolled back, so that a file that held the formatted text
\* of the spaces before the call does not hold that of the spaces after it; the
\* calls that write nothing leave memory and file as they are, and the next
\* write that succeeds puts the formatted text of the spaces in memory, the
\* failed call's mutation included, into the file.
C12_PersistFailure ==
    [][/\ (/\ pc = "ready"
           /\ call'.op \in {"add_todo", "toggle_todo", "delete_todo"}
           /\ io' = <<"write_err">>)
          => LET before == current_todo_spaces
                 after == current_todo_spaces'
                 k == Target(before, CalledName(call'))
                 j == call'.index + 1
             IN /\ result' = "io error"
                /\ after # before
                /\ call'.op = "add_todo"
                       => TotalTodos(after) = TotalTodos(before) + 1
                /\ call'.op = "delete_todo"
                       => TotalTodos(after) = TotalTodos(before) - 1
                /\ call'.op = "toggle_todo"
                       => after[k].todos[j].status = ~before[k].todos[j].status
                /\ file.content = format_todos_as_markdown(before)
                       => file'.content # format_todos_as_markdown(after)
       /\ (/\ pc = "ready"
           /\ failed_writes > 0
           /\ call'.op # "new"
           /\ io' = <<>>)
          => /\ current_todo_spaces' = current_todo_spaces
             /\ file' = file
       /\ (/\ pc = "ready"
           /\ failed_writes > 0
           /\ call'.op # "new"
           /\ io' = <<"write">>)
          => /\ result' = "Ok"
             /\ current_todo_spaces' # current_todo_spaces
             /\ file' = [exists |-> TRUE,
                         content |-> format_todos_as_markdown(current_todo_spaces')]]_vars

\* the write of a delete failed: the call returned the error, the task is gone
\* from "Default" in memory, and the file still holds it
C12_Witness ==
    /\ call.op = "delete_todo"
    /\ call.space_name = None
    /\ result = "io error"
    /\ io = <<"write_err">>
    /\ current_todo_spaces = <<TodoSpace(DefaultName, <<>>)>>
    /\ file = [exists |-> TRUE, content |-> FileAfterBuyMilk]

\* the number of events of the trace that are in `events`
Count(trace, events) == Cardinality({i \in 1..Len(trace) : trace[i] \in events})

\* no event of `later` comes before an event of `earlier` in the trace
InOrder(trace, earlier, later) ==
    \A i \in 1..Len(trace), j \in 1..Len(trace) :
        (trace[i] \in later /\ trace[j] \in earlier) => j < i

\* C13: an invocation, whatever its action and whether the file exists or not,
\* performs at most one load of the file, at most one mutation of the spaces in
\* memory and at most one write of the file, in that order (the loads and
\* writes counted are those that succeeded).
C13_IoBound ==
    output.step \in {"constructed", "exit"}
        => /\ Count(output.trace, {"read"}) <= 1
           /\ Count(output.trace, {"mutate"}) <= 1
           /\ Count(output.trace, {"write"}) <= 1
           /\ InOrder(output.trace, {"read"}, {"mutate", "write"})
           /\ InOrder(output.trace, {"mutate"}, {"write"})

\* the traces of one TodoManager::new that returns a manager, the creation of
\* the directory aside: the load, or the load that fails, the Default space and
\* its write
ConstructedTraces == {<<"read">>, <<"read_err", "mutate", "write">>}

\* the traces of one TodoManager::new that panics
PanickedTraces == {<<>>, <<"read_err", "mutate", "write_err">>}

\* the traces of the operation an action runs on the manager
OperationTraces(cli) ==
    CASE cli.action = "Add" /\ cli.todo # None ->
             {<<"mutate", "write">>, <<"mutate", "write_err">>}
      [] cli.action \in {"Toggle", "Delete"} ->
             {<<>>, <<"mutate", "write">>, <<"mutate", "write_err">>}
      [] cli.action = "New" -> ConstructedTraces \cup PanickedTraces
      [] OTHER -> {<<>>}

\* the trace without the creations of the directory
FileAndMemory(trace) ==
    SelectSeq(trace, LAMBDA e : e \notin {"create_dir_all", "create_dir_all_err"})

\* C13 as amended: an invocation runs TodoManager::new once and then at most
\* one operation. TodoManager::new performs one load and, only when the load
\* fails, one mutation of the spaces in memory (the Default space) followed by
\* one write. Add, Toggle and Delete then perform at most one mutation followed
\* by one write, the lists perform nothing more, and New runs TodoManager::new a
\* second time. So an invocation performs at most one load (two for New), at
\* most two mutations and at most two writes, each write right after the
\* mutation it saves.
C13_IoSequence ==
    /\ output.step = "constructed"
           => FileAndMemory(output.trace) \in ConstructedTraces
    /\ output.step = "exit"
           => \/ FileAndMemory(output.trace) \in PanickedTraces
              \/ \E c \in ConstructedTraces, o \in OperationTraces(input) :
                     FileAndMemory(output.trace) = c \o o

\* an Add on a path without file has ended: two mutations and two writes
C13_Witness ==
    /\ output.step = "exit"
    /\ input.action = "Add"
    /\ output.trace = <<"create_dir_all", "read_err", "mutate", "write",
                        "mutate", "write">>

\* the tags among the pieces of a line
TagsOf(pieces) ==
    {pieces[i] : i \in 1..Len(pieces)} \cap {TagUrgent, TagHigh, TagMedium, TagLow}

\* C14: decoding the tag a priority encodes to gives the priority back, for each
\* of the four; a line that holds none of the four tags decodes to Medium; and
\* a line that holds tags decodes to the first one it holds in the order
\* {URGENT}, {HIGH}, {MEDIUM}, {LOW}, wherever the tags stand in the line.
C14_Codec ==
    output.step = "decoded"
        => IF input.kind = "priority"
           THEN output.priority = input.priority
           ELSE output.priority =
                    (IF TagUrgent \in TagsOf(input.pieces) THEN "Urgent"
                     ELSE IF TagHigh \in TagsOf(input.pieces) THEN "High"
                     ELSE IF TagMedium \in TagsOf(input.pieces) THEN "Medium"
                     ELSE IF TagLow \in TagsOf(input.pieces) THEN "Low"
                     ELSE "Medium")

\* the line "{LOW}a{URGENT}" was decoded, to Urgent
C14_Witness ==
    /\ output.step = "decoded"
    /\ input = [kind |-> "line", pieces |-> <<TagLow, <<"a">>, TagUrgent>>]
    /\ output.priority = "Urgent"

\* the text without the four tags, trimmed
WithoutTags(text) ==
    Trim(Replace(Replace(Replace(Replace(text, TagLow), TagMedium), TagHigh),
                 TagUrgent))

\* C15: for a line that, trimmed, starts with "- [ ]" or "- [x]", with or
\* without a space after it, the parser records one task whose description is
\* the text after that checkbox prefix, the four tags removed and the result
\* trimmed: the prefix is not in the description and one prefix only is removed.
C15_PrefixStripped ==
    (/\ output.step = "parsed"
     /\ \/ StartsWith(Trim(output.text), PendingBox)
        \/ StartsWith(Trim(output.text), DoneBox))
        => LET trimmed == Trim(output.text)
               rest == SubSeq(trimmed, Len(PendingBox) + 1, Len(trimmed))
           IN /\ Len(output.spaces) = 1
              /\ Len(output.spaces[1].todos) = 1
              /\ output.spaces[1].todos[1].item = WithoutTags(rest)

\* both invocations have ended and both adds returned Ok
BothAddsOk ==
    \A p \in Procs : output[p].step = "exit" /\ output[p].result = "Ok"

\* C16: each of two invocations that run at the same time holds what it loaded
\* and its own task, and nothing else; when both adds have returned Ok the file
\* is the formatted store of one of the two, so that it holds the other's task
\* only if that one loaded it. Nothing makes an add fail or merge because the
\* file changed after the load: the update of the process that saved first is
\* lost when the other loaded before that save.
C16_LostUpdate ==
    /\ \A p \in Procs :
           (\/ output[p].step = "pushed"
            \/ output[p].step = "exit" /\ output[p].result # "panic")
               => TotalTodos(output[p].current_todo_spaces)
                      = TotalTodos(output[p].loaded) + 1
    /\ BothAddsOk
           => \E w \in Procs :
                  file = [exists |-> TRUE,
                          content |->
                              format_todos_as_markdown(output[w].current_todo_spaces)]

\* both adds returned Ok, one of "buy milk" and one of "ship release", and the
\* file holds "buy milk" only
C16_Witness ==
    /\ BothAddsOk
    /\ input[1].todo = Some(BuyMilk)
    /\ input[2].todo = Some(ShipRelease)
    /\ file = [exists |-> TRUE, content |-> FileAfterBuyMilk]

\* C17: no add, toggle, delete, list or list_spaces call on a manager makes the
\* number of its spaces smaller or changes the name or the place of a space it
\* has; a delete of the only task of a space leaves the space in the store,
\* with no tasks.
C17_SpacesKept ==
    [][(/\ pc = "ready"
        /\ call'.op \in {"add_todo", "toggle_todo", "delete_todo", "list_todos",
                         "list_workspaces"})
       => LET before == current_todo_spaces
              after == current_todo_spaces'
          IN /\ Len(after) >= Len(before)
             /\ \A m \in 1..Len(before) : after[m].name = before[m].name
             /\ (/\ call'.op = "delete_todo"
                 /\ HasSpace(before, CalledName(call'))
                 /\ call'.index = 0
                 /\ Len(before[Target(before, CalledName(call'))].todos) = 1)
                => /\ Len(after) = Len(before)
                   /\ after[Target(before, CalledName(call'))] =
                          TodoSpace(CalledName(call'), <<>>)]_vars

\* a delete took the only task of "Work": the store still has its two spaces,
\* and "Work" has no tasks
C17_Witness ==
    /\ call.op = "delete_todo"
    /\ call.space_name = Some(Work)
    /\ result = "Ok"
    /\ Len(current_todo_spaces) = 2
    /\ HasSpace(current_todo_spaces, Work)
    /\ current_todo_spaces[Target(current_todo_spaces, Work)].todos = <<>>

====
